---- MODULE Spec2Model ----
(***************************************************************************)
(* Model of the heat-island analysis of main.py: the body of               *)
(* analizar_islas_calor_completo, stage by stage, over small rasters.      *)
(*                                                                         *)
(* An image is a function from pixels <<row, col>> to a pixel record       *)
(* [valid, val]: Earth Engine's masked pixel is [valid |-> FALSE]. Every   *)
(* image operation below is the Earth Engine call the source makes, with   *)
(* its mask propagation written out.                                       *)
(***************************************************************************)
EXTENDS Integers, Sequences, FiniteSets, TLC

---------------------------------------------------------------------------
\* Bounds of the model.

\* The cleaning grid has two rows (the least that tells 8- from
\* 4-connectivity apart) and MaxCol columns.
MaxCol == 3
\* The whole pipeline runs on a strip of one row and MaxStrip columns.
MaxStrip == 2
\* Scenes the collection query returns in the whole pipeline.
MaxScenes == 1
\* Scenes the collection query returns when the mosaic alone is checked.
MaxStack == 2
\* Raw thermal counts ST_B10 of a valid reading: 1..MaxDN.
MaxDN == 2
\* min_pix_parche is drawn from 1..MaxMinPix.
MaxMinPix == 4
\* Stands for maxSize=1024 of connectedPixelCount, scaled to the grid so
\* that a component can reach it.
MaxSizeCap == 3

---------------------------------------------------------------------------
\* Constants of the program.

\* coleccion.reduce(ee.Reducer.percentile([50]))
PercentilMosaico == 50
\* percentil_uhi=90, the default of analizar_islas_calor_completo
PercentilUHI == 90
\* .multiply(0.00341802), in units of 1e-8
ScaleE8 == 341802
\* scale=30: the side of a pixel in metres
Scale == 30

Pixels == (1..2) \X (1..MaxCol)
PixelsStrip == (1..1) \X (1..MaxStrip)

---------------------------------------------------------------------------
\* Pixels, images and numbers.

Masked == [valid |-> FALSE, val |-> 0]
Px(v) == [valid |-> TRUE, val |-> v]
\* An image expression that was not built (yet).
NoImg == [p \in {} |-> Masked]

\* A server-side number: null or a value.
NullNum == [def |-> FALSE, v |-> 0]
Num(x) == [def |-> TRUE, v |-> x]

Min2(a, b) == IF a <= b THEN a ELSE b

\* A pixel counts as set in a mask when it is unmasked and non-zero: that
\* is how updateMask reads its argument.
IsSet(img, p) == img[p].valid /\ img[p].val # 0
SetPixels(img) == {p \in DOMAIN img : IsSet(img, p)}
ValidPixels(img) == {p \in DOMAIN img : img[p].valid}

\* image.updateMask(mask)
UpdateMask(img, mask) ==
  [p \in DOMAIN img |-> IF img[p].valid /\ IsSet(mask, p) THEN img[p] ELSE Masked]

\* image.selfMask()
SelfMask(img) == UpdateMask(img, img)

\* Gte with the comparison made strict.
GteStrict(img, k) ==
  [p \in DOMAIN img |-> IF img[p].valid
                          THEN Px(IF img[p].val > k THEN 1 ELSE 0)
                          ELSE Masked]

\* image.gte(k): 1 or 0 on valid pixels, masked pixels stay masked.
Gte(img, k) ==
  [p \in DOMAIN img |-> IF img[p].valid
                          THEN Px(IF img[p].val >= k THEN 1 ELSE 0)
                          ELSE Masked]

---------------------------------------------------------------------------
\* ee.Reducer.percentile: the order statistic of rank ceil(pct*n/100) (at
\* least 1) of the valid inputs, without interpolation.

PercentileRank(pct, n) ==
  LET r == (pct * n + 99) \div 100 IN IF r < 1 THEN 1 ELSE r

\* The k-th smallest of the values f[x], x in S (S non-empty, 1 <= k <= |S|).
OrderStat(S, f, k) ==
  LET vals == {f[x] : x \in S}
      AtMost(v) == Cardinality({x \in S : f[x] <= v})
  IN CHOOSE v \in vals : AtMost(v) >= k /\ \A w \in vals : AtMost(w) >= k => v <= w

Percentile(S, f, pct) == OrderStat(S, f, PercentileRank(pct, Cardinality(S)))

RECURSIVE SumOver(_, _)
SumOver(S, f) ==
  IF S = {} THEN 0
  ELSE LET x == CHOOSE y \in S : TRUE IN f[x] + SumOver(S \ {x}, f)

MinOver(S, f) == CHOOSE v \in {f[x] : x \in S} : \A x \in S : v <= f[x]
MaxOver(S, f) == CHOOSE v \in {f[x] : x \in S} : \A x \in S : v >= f[x]

---------------------------------------------------------------------------
\* PASO 1: the collection and its mosaic.

\* What one scene can hold at a pixel after cloudMaskFunction and
\* noThermalDataFunction were mapped over it: a masked pixel or a count.
Readings == {Masked} \cup {Px(d) : d \in 1..MaxDN}

\* The collections the query can return over the pixels px: up to n scenes.
Collections(px, n) == UNION {[1..k -> [px -> Readings]] : k \in 0..n}

\* SinImagenes with the early return forgotten.
SinImagenesNunca(c) == FALSE

\* if count == 0: ... return None
SinImagenes(c) == c = 0

\* ValidAt with the masked readings counted too (as their value 0).
ValidAtTodos(col, p) == 1..Len(col)

\* coleccion.reduce(ee.Reducer.percentile([50])): per pixel, the percentile
\* of the readings of the scenes that are valid there; masked where none is.
ValidAt(col, p) == {i \in 1..Len(col) : col[i][p].valid}

Reduce(col, px, pct) ==
  [p \in px |->
     LET S == ValidAt(col, p)
     IN IF S = {} THEN Masked
        ELSE Px(Percentile(S, [i \in S |-> col[i][p].val], pct))]

---------------------------------------------------------------------------
\* PASO 2: mosaico.select("ST_B10_p50").multiply(0.00341802).add(149.0)
\* .subtract(273.15). Temperatures are exact integers in units of 1e-8
\* degrees, counted from the constant term 149.0 - 273.15 that every pixel
\* shares (-12415000000 in these units does not fit TLC's integers).

ToCelsius(img) ==
  [p \in DOMAIN img |-> IF img[p].valid THEN Px(img[p].val * ScaleE8) ELSE Masked]

---------------------------------------------------------------------------
\* PASO 3: threshold, raw mask, cleaned mask.

\* reduceRegion(geometry=aoi_geometry): the valid pixels inside the geometry.
Population(img, geom) == {p \in DOMAIN img \cap geom : img[p].valid}

ValOf(img, S) == [p \in S |-> img[p].val]

\* Umbral with 0 substituted for the null of an empty population.
UmbralCero(img, geom, pct) ==
  LET S == Population(img, geom)
  IN IF S = {} THEN Num(0) ELSE Num(Percentile(S, ValOf(img, S), pct))

\* pctDict / umbral: the percentile of the population, null when it is empty.
Umbral(img, geom, pct) ==
  LET S == Population(img, geom)
  IN IF S = {} THEN NullNum ELSE Num(Percentile(S, ValOf(img, S), pct))

\* GteFalla with a null umbral accepted (read as its placeholder 0).
GteNuncaFalla(u) == FALSE

\* lstForThreshold.gte(umbral) cannot be evaluated with a null umbral: the
\* first getInfo() that needs it raises.
GteFalla(u) == ~u.def

\* uhiMask = lstForThreshold.gte(umbral): over the whole image.
UhiMask(img, u) == IF GteFalla(u) THEN NoImg ELSE Gte(img, u.v)

\* eightConnected with the diagonal neighbours left out.
fourConnected == FALSE

\* eightConnected=True
eightConnected == TRUE

Neighbors(p, q, eight) ==
  /\ p # q
  /\ p[1] - q[1] \in -1..1
  /\ p[2] - q[2] \in -1..1
  /\ (eight \/ p[1] = q[1] \/ p[2] = q[2])

\* The pixels that connectedPixelCount joins with p: valid, same value.
SameValue(img, p) == {q \in DOMAIN img : img[q].valid /\ img[q].val = img[p].val}

RECURSIVE Flood(_, _, _)
Flood(img, p, S) ==
  LET T == S \cup {q \in SameValue(img, p) : \E s \in S : Neighbors(s, q, eightConnected)}
  IN IF T = S THEN S ELSE Flood(img, p, T)

\* ConnectedPixelCount with the pixel itself left out of its count.
ConnectedPixelCountSinSi(img, cap) ==
  [p \in DOMAIN img |-> IF img[p].valid
                          THEN Px(Min2(Cardinality(Flood(img, p, {p})) - 1, cap))
                          ELSE Masked]

\* uhiMask.connectedPixelCount(maxSize, eightConnected=True)
ConnectedPixelCount(img, cap) ==
  [p \in DOMAIN img |-> IF img[p].valid
                          THEN Px(Min2(Cardinality(Flood(img, p, {p})), cap))
                          ELSE Masked]

\* UhiClean with the size test taken as the mask itself.
UhiCleanSoloConteo(mask, cc, minpix) == SelfMask(Gte(cc, minpix))

\* uhiMask.updateMask(compCount.gte(min_pix_parche)).selfMask()
UhiClean(mask, cc, minpix) == SelfMask(UpdateMask(mask, Gte(cc, minpix)))

---------------------------------------------------------------------------
\* PASO 4: statistics and areas.

NullStats == [n |-> 0, sum |-> 0, min |-> NullNum, max |-> NullNum,
              p5 |-> NullNum, p50 |-> NullNum, p95 |-> NullNum]

\* reduceRegion(minMax + mean + percentile([5, 50, 95])): the mean is kept as
\* sum and count; every output is null over an empty population.
ReduceRegion(img, geom) ==
  LET S == Population(img, geom)
      f == ValOf(img, S)
  IN IF S = {} THEN NullStats
     ELSE [n |-> Cardinality(S), sum |-> SumOver(S, f),
           min |-> Num(MinOver(S, f)), max |-> Num(MaxOver(S, f)),
           p5 |-> Num(Percentile(S, f, 5)), p50 |-> Num(Percentile(S, f, 50)),
           p95 |-> Num(Percentile(S, f, 95))]

\* Severidad reduced over the whole image instead of the geometry.
SeveridadSinGeometria(img, clean, geom) ==
  LET r == ReduceRegion(UpdateMask(img, clean), DOMAIN img)
  IN [n |-> r.n, sum |-> r.sum, max |-> r.max]

\* lstCelsius.updateMask(uhiClean).reduceRegion(mean + max)
Severidad(img, clean, geom) ==
  LET r == ReduceRegion(UpdateMask(img, clean), geom)
  IN [n |-> r.n, sum |-> r.sum, max |-> r.max]

\* ee.Image.pixelArea(): square metres, valid everywhere.
PixelArea(px) == [p \in px |-> Px(Scale * Scale)]

\* reduceRegion(ee.Reducer.sum()).get("area"): 0 over an empty population.
AreaSum(img, geom) ==
  LET S == Population(img, geom) IN SumOver(S, ValOf(img, S))

\* ee.Image.pixelArea().updateMask(uhiClean) summed over the geometry, in
\* square metres (the source's hectares are these over 10000).
AreaUHI(clean, geom) == AreaSum(UpdateMask(PixelArea(DOMAIN clean), clean), geom)

\* ee.Image.pixelArea() summed over the geometry: every pixel of it, valid
\* in the temperature image or not.
AreaTotal(px, geom) == AreaSum(PixelArea(px), geom)

\* (areaUHI_ha / area_total_ha * 100) if area_total_ha > 0 else 0
Porcentaje(a, t) == IF t > 0 THEN [num |-> a * 100, den |-> t] ELSE [num |-> 0, den |-> 1]

\* image.clip(aoi_geometry)
Clip(img, geom) == [p \in DOMAIN img |-> IF p \in geom THEN img[p] ELSE Masked]

None == [ok |-> FALSE]

---------------------------------------------------------------------------
\* The state of one call of analizar_islas_calor_completo.

VARIABLES
  pc,              \* the stage the call is at
  aoi_geometry,    \* argument: the pixels the geometry covers
  percentil_uhi,   \* argument
  min_pix_parche,  \* argument
  coleccion,       \* the filtered, masked scenes
  count,           \* coleccion.size().getInfo()
  mosaico, lstCelsius, umbral, uhiMask, compCount, uhiClean,
  stats, areaUHI_ha, sevStats, area_total_ha, porcentaje_uhi,
  mensaje,         \* what st.error reported: "", "sin_imagenes", "error_analisis"
  resultados,      \* the value returned: None or the record
  cruda,           \* a scene of the catalogue, before the masks are mapped
  escena,          \* that scene as the mapped functions leave it
  gee_available,   \* st.session_state.gee_available
  window,          \* st.session_state.window
  rerun_pendiente, \* st.rerun() was called: the script starts again at once
  ultimo           \* what the last run of the script did

vars == <<pc, aoi_geometry, percentil_uhi, min_pix_parche, coleccion, count,
          mosaico, lstCelsius, umbral, uhiMask, compCount, uhiClean, stats,
          areaUHI_ha, sevStats, area_total_ha, porcentaje_uhi, mensaje,
          resultados, cruda, escena, gee_available, window, rerun_pendiente,
          ultimo>>

\* The state outside the call: the scene under the masks and the dashboard.
fuera == <<cruda, escena, gee_available, window, rerun_pendiente, ultimo>>

NullSev == [n |-> 0, sum |-> 0, max |-> NullNum]
NullPct == [num |-> 0, den |-> 1]

\* A scene holds the two bands the source reads, each with its own mask.
NoScene == [QA_PIXEL |-> NoImg, ST_B10 |-> NoImg]

\* The run of the script in which the call is made: the button was pressed,
\* localities and geometry were loaded, nothing was initialised again.
CorridaConAnalisis ==
  [verificar |-> FALSE, ejecutar |-> TRUE, antes |-> TRUE, inicializaciones |-> 0,
   localidades |-> 1, visible |-> TRUE, geometria |-> TRUE, analisis |-> TRUE]

\* The state outside the call while the call runs.
DuranteLlamada ==
  /\ cruda = NoScene
  /\ escena = NoScene
  /\ gee_available = TRUE
  /\ window = "Mapas"
  /\ rerun_pendiente = FALSE
  /\ ultimo = CorridaConAnalisis

\* Nothing of the body has run.
Unset ==
  /\ coleccion = <<>>
  /\ count = 0
  /\ mosaico = NoImg
  /\ lstCelsius = NoImg
  /\ umbral = NullNum
  /\ uhiMask = NoImg
  /\ compCount = NoImg
  /\ uhiClean = NoImg
  /\ stats = NullStats
  /\ areaUHI_ha = 0
  /\ sevStats = NullSev
  /\ area_total_ha = 0
  /\ porcentaje_uhi = NullPct
  /\ mensaje = ""
  /\ resultados = None

\* The call: a geometry over the strip, the default percentile, any
\* min_pix_parche.
Init ==
  /\ pc = "paso1"
  /\ aoi_geometry \in SUBSET PixelsStrip
  /\ percentil_uhi = PercentilUHI
  /\ min_pix_parche \in 1..MaxMinPix
  /\ Unset
  /\ DuranteLlamada

\* coleccion = ...filterBounds.filterDate.filter.map.map; count = size();
\* if count == 0: st.error(...); return None
CargarColeccion(n) ==
  /\ pc = "paso1"
  /\ \E col \in Collections(PixelsStrip, n) :
       /\ coleccion' = col
       /\ count' = Len(col)
       /\ IF SinImagenes(Len(col))
            THEN pc' = "fin" /\ mensaje' = "sin_imagenes"
            ELSE pc' = "mosaico" /\ mensaje' = mensaje
  /\ UNCHANGED fuera
  /\ UNCHANGED <<aoi_geometry, percentil_uhi, min_pix_parche, mosaico, lstCelsius,
                 umbral, uhiMask, compCount, uhiClean, stats, areaUHI_ha, sevStats,
                 area_total_ha, porcentaje_uhi, resultados>>

\* mosaico = coleccion.reduce(ee.Reducer.percentile([50]))
CrearMosaico ==
  /\ pc = "mosaico"
  /\ mosaico' = Reduce(coleccion, PixelsStrip, PercentilMosaico)
  /\ pc' = "paso2"
  /\ UNCHANGED fuera
  /\ UNCHANGED <<aoi_geometry, percentil_uhi, min_pix_parche, coleccion, count,
                 lstCelsius, umbral, uhiMask, compCount, uhiClean, stats,
                 areaUHI_ha, sevStats, area_total_ha, porcentaje_uhi, mensaje,
                 resultados>>

\* lstCelsius = banda_termica.multiply(...).add(...).subtract(...)
CalcularLST ==
  /\ pc = "paso2"
  /\ lstCelsius' = ToCelsius(mosaico)
  /\ pc' = "umbral"
  /\ UNCHANGED fuera
  /\ UNCHANGED <<aoi_geometry, percentil_uhi, min_pix_parche, coleccion, count,
                 mosaico, umbral, uhiMask, compCount, uhiClean, stats, areaUHI_ha,
                 sevStats, area_total_ha, porcentaje_uhi, mensaje, resultados>>

\* pctDict = lstForThreshold.reduceRegion(percentile); umbral = ...
DetectarUmbral ==
  /\ pc = "umbral"
  /\ umbral' = Umbral(lstCelsius, aoi_geometry, percentil_uhi)
  /\ pc' = "mascara"
  /\ UNCHANGED fuera
  /\ UNCHANGED <<aoi_geometry, percentil_uhi, min_pix_parche, coleccion, count,
                 mosaico, lstCelsius, uhiMask, compCount, uhiClean, stats,
                 areaUHI_ha, sevStats, area_total_ha, porcentaje_uhi, mensaje,
                 resultados>>

\* uhiMask = lstForThreshold.gte(umbral)
CrearMascara ==
  /\ pc = "mascara"
  /\ uhiMask' = UhiMask(lstCelsius, umbral)
  /\ pc' = "conectados"
  /\ UNCHANGED fuera
  /\ UNCHANGED <<aoi_geometry, percentil_uhi, min_pix_parche, coleccion, count,
                 mosaico, lstCelsius, umbral, compCount, uhiClean, stats,
                 areaUHI_ha, sevStats, area_total_ha, porcentaje_uhi, mensaje,
                 resultados>>

\* compCount = uhiMask.connectedPixelCount(maxSize=1024, eightConnected=True)
ContarConectados ==
  /\ pc = "conectados"
  /\ compCount' = ConnectedPixelCount(uhiMask, MaxSizeCap)
  /\ pc' = "limpieza"
  /\ UNCHANGED fuera
  /\ UNCHANGED <<aoi_geometry, percentil_uhi, min_pix_parche, coleccion, count,
                 mosaico, lstCelsius, umbral, uhiMask, uhiClean, stats, areaUHI_ha,
                 sevStats, area_total_ha, porcentaje_uhi, mensaje, resultados>>

\* uhiClean = uhiMask.updateMask(compCount.gte(min_pix_parche)).selfMask()
LimpiarMascara ==
  /\ pc = "limpieza"
  /\ uhiClean' = UhiClean(uhiMask, compCount, min_pix_parche)
  /\ pc' = "paso4"
  /\ UNCHANGED fuera
  /\ UNCHANGED <<aoi_geometry, percentil_uhi, min_pix_parche, coleccion, count,
                 mosaico, lstCelsius, umbral, uhiMask, compCount, stats, areaUHI_ha,
                 sevStats, area_total_ha, porcentaje_uhi, mensaje, resultados>>

\* stats = lstCelsius.reduceRegion(...).getInfo(): does not read umbral.
CalcularEstadisticas ==
  /\ pc = "paso4"
  /\ stats' = ReduceRegion(lstCelsius, aoi_geometry)
  /\ pc' = "areas"
  /\ UNCHANGED fuera
  /\ UNCHANGED <<aoi_geometry, percentil_uhi, min_pix_parche, coleccion, count,
                 mosaico, lstCelsius, umbral, uhiMask, compCount, uhiClean,
                 areaUHI_ha, sevStats, area_total_ha, porcentaje_uhi, mensaje,
                 resultados>>

\* areaUHI_ha, sevStats, area_total_ha, porcentaje_uhi. areaUHI and area_total
\* are server-side objects, always true in `x if areaUHI else 0`, so the
\* substituted 0 and 1 are never taken. The getInfo() of
\* areaUHI is the first to evaluate uhiClean: with a null umbral it raises,
\* and the except clause reports the error and returns None.
CalcularAreas ==
  /\ pc = "areas"
  /\ IF GteFalla(umbral)
       THEN /\ pc' = "fin"
            /\ mensaje' = "error_analisis"
            /\ UNCHANGED <<areaUHI_ha, sevStats, area_total_ha, porcentaje_uhi>>
       ELSE /\ areaUHI_ha' = AreaUHI(uhiClean, aoi_geometry)
            /\ sevStats' = Severidad(lstCelsius, uhiClean, aoi_geometry)
            /\ area_total_ha' = AreaTotal(DOMAIN lstCelsius, aoi_geometry)
            /\ porcentaje_uhi' = Porcentaje(AreaUHI(uhiClean, aoi_geometry),
                                            AreaTotal(DOMAIN lstCelsius, aoi_geometry))
            /\ pc' = "devolver"
            /\ mensaje' = mensaje
  /\ UNCHANGED fuera
  /\ UNCHANGED <<aoi_geometry, percentil_uhi, min_pix_parche, coleccion, count,
                 mosaico, lstCelsius, umbral, uhiMask, compCount, uhiClean, stats,
                 resultados>>

\* The tiles of the clipped layers and the returned dictionary.
Devolver ==
  /\ pc = "devolver"
  /\ resultados' = [ok |-> TRUE,
                    lst_tiles |-> Clip(lstCelsius, aoi_geometry),
                    uhi_tiles |-> Clip(uhiClean, aoi_geometry),
                    estadisticas |-> stats,
                    area_uhi_ha |-> areaUHI_ha,
                    area_total_ha |-> area_total_ha,
                    porcentaje_uhi |-> porcentaje_uhi,
                    severidad |-> sevStats,
                    umbral_uhi |-> umbral,
                    n_imagenes |-> count]
  /\ pc' = "fin"
  /\ UNCHANGED fuera
  /\ UNCHANGED <<aoi_geometry, percentil_uhi, min_pix_parche, coleccion, count,
                 mosaico, lstCelsius, umbral, uhiMask, compCount, uhiClean, stats,
                 areaUHI_ha, sevStats, area_total_ha, porcentaje_uhi, mensaje>>

Next ==
  \/ CargarColeccion(MaxScenes)
  \/ CrearMosaico
  \/ CalcularLST
  \/ DetectarUmbral
  \/ CrearMascara
  \/ ContarConectados
  \/ LimpiarMascara
  \/ CalcularEstadisticas
  \/ CalcularAreas
  \/ Devolver

Spec == Init /\ [][Next]_vars

---------------------------------------------------------------------------
\* The mosaic alone: the first two stages over deeper scene stacks.

NextMosaico ==
  \/ CargarColeccion(MaxStack)
  \/ CrearMosaico
  \/ CalcularLST

InitMosaico ==
  /\ pc = "paso1"
  /\ aoi_geometry = PixelsStrip
  /\ percentil_uhi = PercentilUHI
  /\ min_pix_parche = 1
  /\ Unset
  /\ DuranteLlamada

SpecMosaico == InitMosaico /\ [][NextMosaico]_vars

---------------------------------------------------------------------------
\* The cleaning alone: connectedPixelCount and the size filter applied to
\* every raw mask over the two-row grid.

MaskValues == {Masked, Px(0), Px(1)}

InitLimpieza ==
  /\ pc = "conectados"
  /\ aoi_geometry = Pixels
  /\ percentil_uhi = PercentilUHI
  /\ min_pix_parche \in 1..MaxMinPix
  /\ uhiMask \in [Pixels -> MaskValues]
  /\ coleccion = <<>>
  /\ count = 0
  /\ mosaico = NoImg
  /\ lstCelsius = NoImg
  /\ umbral = NullNum
  /\ compCount = NoImg
  /\ uhiClean = NoImg
  /\ stats = NullStats
  /\ areaUHI_ha = 0
  /\ sevStats = NullSev
  /\ area_total_ha = 0
  /\ porcentaje_uhi = NullPct
  /\ mensaje = ""
  /\ resultados = None
  /\ DuranteLlamada

NextLimpieza ==
  \/ ContarConectados
  \/ LimpiarMascara

SpecLimpieza == InitLimpieza /\ [][NextLimpieza]_vars

---------------------------------------------------------------------------
\* Claims.

\* The raw mask has been built from a threshold.
MaskBuilt == uhiMask # NoImg /\ lstCelsius # NoImg /\ umbral.def

\* C1 as stated: a pixel of the raw mask is set iff its temperature is at
\* least the threshold, it is valid and it lies inside the ROI.
C1_MaskInsideROI ==
  MaskBuilt =>
    \A p \in DOMAIN uhiMask :
      IsSet(uhiMask, p) <=> /\ lstCelsius[p].valid
                            /\ lstCelsius[p].val >= umbral.v
                            /\ p \in aoi_geometry

\* C1 amended: a pixel of the raw mask is set iff its temperature is at
\* least the threshold and it is valid, inside the ROI or not; an invalid
\* pixel is never set and never counted by connectedPixelCount, whatever
\* its raw value.
C1_MaskFullGrid ==
  /\ MaskBuilt =>
       \A p \in DOMAIN uhiMask :
         IsSet(uhiMask, p) <=> (lstCelsius[p].valid /\ lstCelsius[p].val >= umbral.v)
  /\ (MaskBuilt /\ compCount # NoImg) =>
       \A p \in DOMAIN uhiMask : ~lstCelsius[p].valid => ~compCount[p].valid

\* C1's case: a hot pixel outside the ROI is set in the raw mask and is
\* counted into the component of a set pixel inside the ROI.
C1_Witness ==
  /\ MaskBuilt
  /\ compCount # NoImg
  /\ \E p \in DOMAIN uhiMask : \E q \in DOMAIN uhiMask :
       /\ p \notin aoi_geometry /\ IsSet(uhiMask, p)
       /\ q \in aoi_geometry /\ IsSet(uhiMask, q)
       /\ compCount[q].val = 2

\* C2: every pixel set in the cleaned mask is set in the raw mask.
C2_CleanSubset ==
  uhiClean # NoImg => SetPixels(uhiClean) \subseteq SetPixels(uhiMask)

\* C2's case: cleaning removed some set pixels and kept others, on a mask
\* that also holds a masked and a cold pixel.
C2_Witness ==
  /\ pc = "paso4"
  /\ SetPixels(uhiClean) # {}
  /\ SetPixels(uhiClean) # SetPixels(uhiMask)
  /\ \E p \in DOMAIN uhiMask : ~uhiMask[p].valid
  /\ \E p \in DOMAIN uhiMask : uhiMask[p] = Px(0)

\* C3: with min_pix_parche = 1 the cleaned mask has exactly the set pixels
\* of the raw mask.
C3_MinOneIsIdentity ==
  (pc = "paso4" /\ min_pix_parche = 1) => SetPixels(uhiClean) = SetPixels(uhiMask)

\* C3's case: a mask with an isolated set pixel cleaned with size 1.
C3_Witness ==
  /\ pc = "paso4"
  /\ min_pix_parche = 1
  /\ \E p \in SetPixels(uhiMask) :
       /\ IsSet(uhiClean, p)
       /\ \A q \in SetPixels(uhiMask) : q # p => ~Neighbors(p, q, TRUE)
  /\ Cardinality(SetPixels(uhiMask)) >= 2

\* The 8-connected component of p among the set pixels, stated without the
\* flood fill: the pixels every neighbour-closed set around p contains.
Adjacent8(p, q) ==
  /\ p # q
  /\ (p[1] - q[1]) * (p[1] - q[1]) <= 1
  /\ (p[2] - q[2]) * (p[2] - q[2]) <= 1

ClosedIn(C, S) == \A s \in C : \A q \in S \ C : ~Adjacent8(s, q)

ComponentOf(p, S) ==
  {q \in S : \A C \in SUBSET S : (p \in C /\ ClosedIn(C, S)) => q \in C}

CountedSize(p, S) == Min2(Cardinality(ComponentOf(p, S)), MaxSizeCap)

\* C4: a set pixel of the raw mask survives cleaning iff the size of its
\* 8-connected component, counted up to the cap, is at least
\* min_pix_parche.
C4_SurvivesIffCountedSize ==
  pc = "paso4" =>
    \A p \in SetPixels(uhiMask) :
      IsSet(uhiClean, p) <=> CountedSize(p, SetPixels(uhiMask)) >= min_pix_parche

\* C4's case: an isolated set pixel and a component of two, cleaned with
\* size 2: the pixel is gone, the component stays.
C4_Witness ==
  /\ pc = "paso4"
  /\ min_pix_parche = 2
  /\ \E p \in SetPixels(uhiMask) :
       /\ ComponentOf(p, SetPixels(uhiMask)) = {p}
       /\ ~IsSet(uhiClean, p)
  /\ \E p \in SetPixels(uhiMask) : IsSet(uhiClean, p)

\* The valid pixels of the temperature image inside the ROI.
Restricted == Population(lstCelsius, aoi_geometry)

\* The threshold stage has run.
AfterUmbral == pc \notin {"paso1", "mosaico", "paso2", "umbral"}

\* C5: with an empty restricted population the threshold is null (not 0,
\* not a default), no mask is built, and the call ends reporting an error
\* and returning None.
C5_EmptyPopulationFails ==
  (count > 0 /\ AfterUmbral /\ Restricted = {}) =>
    /\ umbral = NullNum
    /\ uhiMask = NoImg
    /\ uhiClean = NoImg
    /\ resultados = None
    /\ pc # "devolver"
    /\ (pc = "fin" => mensaje = "error_analisis")

\* C5's case: scenes were found, the ROI is not empty, every pixel of it is
\* masked, and the call has ended.
C5_Witness ==
  /\ pc = "fin"
  /\ count > 0
  /\ aoi_geometry # {}
  /\ Restricted = {}
  /\ ValidPixels(lstCelsius) # {}
  /\ mensaje = "error_analisis"
  /\ resultados = None

\* C6: with no scene the call ends at once: the error is reported, None is
\* returned, and no mosaic, temperature, threshold, mask or statistic is
\* produced.
C6_NoScenesStops ==
  (pc # "paso1" /\ count = 0) =>
    /\ pc = "fin"
    /\ mensaje = "sin_imagenes"
    /\ resultados = None
    /\ mosaico = NoImg
    /\ lstCelsius = NoImg
    /\ umbral = NullNum
    /\ uhiMask = NoImg
    /\ compCount = NoImg
    /\ uhiClean = NoImg
    /\ stats = NullStats
    /\ sevStats = NullSev
    /\ areaUHI_ha = 0
    /\ area_total_ha = 0

\* C6's case: the query returned no scene.
C6_Witness ==
  /\ pc = "fin"
  /\ coleccion = <<>>
  /\ count = 0
  /\ mensaje = "sin_imagenes"

ReadingsAt(p) == {coleccion[i][p].val : i \in {j \in 1..Len(coleccion) : coleccion[j][p].valid}}

\* C8: where at least one scene is valid, the mosaic is valid and lies
\* between the least and the greatest of the valid readings there.
C8_MosaicWithinRange ==
  mosaico # NoImg =>
    \A p \in DOMAIN mosaico :
      ReadingsAt(p) # {} =>
        /\ mosaico[p].valid
        /\ \E lo \in ReadingsAt(p) : lo <= mosaico[p].val
        /\ \E hi \in ReadingsAt(p) : mosaico[p].val <= hi

\* C8's case: a pixel with two different valid readings and a pixel with
\* one valid and one masked reading.
C8_Witness ==
  /\ mosaico # NoImg
  /\ Len(coleccion) = 2
  /\ \E p \in DOMAIN mosaico : Cardinality(ReadingsAt(p)) = 2
  /\ \E p \in DOMAIN mosaico :
       /\ ReadingsAt(p) # {}
       /\ \E i \in 1..Len(coleccion) : ~coleccion[i][p].valid

\* The cleaned mask is set on exactly the valid pixels inside the ROI.
MaskIsFootprint ==
  /\ pc \in {"devolver", "fin"}
  /\ resultados # None \/ pc = "devolver"
  /\ SetPixels(uhiClean) \cap aoi_geometry = Restricted

\* C9 as stated: with such a mask the masked aggregation equals the
\* unmasked one: count, mean, max and area.
C9_MaskedEqualsUnmasked ==
  MaskIsFootprint =>
    /\ sevStats.n = stats.n
    /\ sevStats.sum = stats.sum
    /\ sevStats.max = stats.max
    /\ areaUHI_ha = area_total_ha

\* C9 amended: with such a mask the masked count, mean and max equal the
\* unmasked ones; the areas are equal iff every pixel of the ROI is valid,
\* because the unmasked area also sums the invalid pixels of the ROI.
C9_MaskedEqualsUnmaskedValues ==
  MaskIsFootprint =>
    /\ sevStats.n = stats.n
    /\ sevStats.sum = stats.sum
    /\ sevStats.max = stats.max
    /\ areaUHI_ha <= area_total_ha
    /\ areaUHI_ha = area_total_ha <=> aoi_geometry \subseteq ValidPixels(lstCelsius)

\* C9's case: a returned record whose cleaned mask is the valid footprint of
\* a ROI that also holds an invalid pixel, so that the two areas differ.
C9_Witness ==
  /\ MaskIsFootprint
  /\ pc = "fin"
  /\ Restricted # {}
  /\ \E p \in aoi_geometry : ~lstCelsius[p].valid
  /\ sevStats.n = stats.n
  /\ areaUHI_ha < area_total_ha

\* C10 as stated: a component whose counted size reaches the cap survives
\* cleaning, whatever min_pix_parche is.
C10_CappedComponentSurvives ==
  pc = "paso4" =>
    \A p \in SetPixels(uhiMask) :
      compCount[p].val = MaxSizeCap => IsSet(uhiClean, p)

---------------------------------------------------------------------------
\* The quality masks mapped over every scene of the collection.

\* Bounds: the quality words drawn are 0..MaxQA.
MaxQA == 63

\* 1 << 5, the cloud bit of QA_PIXEL
CloudBit == 5
\* 1 << 3, the cloud shadow bit of QA_PIXEL
ShadowBit == 3
\* st_band.lt(65535)
Saturation == 65535

PixelsUno == {<<1, 1>>}

RECURSIVE BitAnd(_, _)
BitAnd(a, b) ==
  IF a = 0 \/ b = 0 THEN 0
  ELSE (a % 2) * (b % 2) + 2 * BitAnd(a \div 2, b \div 2)

\* image.bitwiseAnd(k)
BitwiseAnd(img, k) ==
  [p \in DOMAIN img |-> IF img[p].valid THEN Px(BitAnd(img[p].val, k)) ELSE Masked]

Bool(b) == IF b THEN 1 ELSE 0

\* a.Or(b), a.And(b): 1 or 0 where both are valid, masked elsewhere.
ImgOr(a, b) ==
  [p \in DOMAIN a |-> IF a[p].valid /\ b[p].valid
                        THEN Px(Bool(a[p].val # 0 \/ b[p].val # 0))
                        ELSE Masked]

ImgAnd(a, b) ==
  [p \in DOMAIN a |-> IF a[p].valid /\ b[p].valid
                        THEN Px(Bool(a[p].val # 0 /\ b[p].val # 0))
                        ELSE Masked]

\* image.eq(k), image.gt(k), image.lt(k)
ImgEq(img, k) ==
  [p \in DOMAIN img |-> IF img[p].valid THEN Px(Bool(img[p].val = k)) ELSE Masked]
ImgGt(img, k) ==
  [p \in DOMAIN img |-> IF img[p].valid THEN Px(Bool(img[p].val > k)) ELSE Masked]
ImgLt(img, k) ==
  [p \in DOMAIN img |-> IF img[p].valid THEN Px(Bool(img[p].val < k)) ELSE Masked]

\* image.updateMask(mask) on a scene: every band is masked.
UpdateMaskBands(image, mask) ==
  [b \in DOMAIN image |-> UpdateMask(image[b], mask)]

\* cloudMaskFunction with the two bits joined by And.
cloudMaskFunctionAnd(image) ==
  LET qa == image.QA_PIXEL
      cloud_mask == BitwiseAnd(qa, 2^CloudBit)
      shadow_mask == BitwiseAnd(qa, 2^ShadowBit)
      combined_mask == ImgEq(ImgAnd(cloud_mask, shadow_mask), 0)
  IN UpdateMaskBands(image, combined_mask)

cloudMaskFunction(image) ==
  LET qa == image.QA_PIXEL
      cloud_mask == BitwiseAnd(qa, 2^CloudBit)
      shadow_mask == BitwiseAnd(qa, 2^ShadowBit)
      combined_mask == ImgEq(ImgOr(cloud_mask, shadow_mask), 0)
  IN UpdateMaskBands(image, combined_mask)

noThermalDataFunction(image) ==
  LET st_band == image.ST_B10
      valid == ImgAnd(ImgGt(st_band, 0), ImgLt(st_band, Saturation))
  IN UpdateMaskBands(image, valid)

\* What a band of a catalogue scene holds at a pixel.
QAReadings == {Masked} \cup {Px(q) : q \in 0..MaxQA}
STReadings == {Masked} \cup {Px(t) : t \in {0, 1, Saturation - 1, Saturation}}

\* One scene of the catalogue, before .map(cloudMaskFunction)
\* .map(noThermalDataFunction).
InitCalidad ==
  /\ pc = "nubes"
  /\ cruda \in [QA_PIXEL : [PixelsUno -> QAReadings], ST_B10 : [PixelsUno -> STReadings]]
  /\ escena = cruda
  /\ aoi_geometry = PixelsUno
  /\ percentil_uhi = PercentilUHI
  /\ min_pix_parche = 1
  /\ Unset
  /\ gee_available = TRUE
  /\ window = "Mapas"
  /\ rerun_pendiente = FALSE
  /\ ultimo = CorridaConAnalisis

callVars == <<aoi_geometry, percentil_uhi, min_pix_parche, coleccion, count,
              mosaico, lstCelsius, umbral, uhiMask, compCount, uhiClean, stats,
              areaUHI_ha, sevStats, area_total_ha, porcentaje_uhi, mensaje,
              resultados>>

\* .map(cloudMaskFunction)
MapNubes ==
  /\ pc = "nubes"
  /\ escena' = cloudMaskFunction(escena)
  /\ pc' = "termica"
  /\ UNCHANGED <<cruda, gee_available, window, rerun_pendiente, ultimo>>
  /\ UNCHANGED callVars

\* .map(noThermalDataFunction)
MapTermica ==
  /\ pc = "termica"
  /\ escena' = noThermalDataFunction(escena)
  /\ pc' = "enmascarada"
  /\ UNCHANGED <<cruda, gee_available, window, rerun_pendiente, ultimo>>
  /\ UNCHANGED callVars

NextCalidad ==
  \/ MapNubes
  \/ MapTermica

SpecCalidad == InitCalidad /\ [][NextCalidad]_vars

\* A bit of a quality word, read by division.
BitSet(q, k) == (q \div 2^k) % 2 = 1

\* The pixel was valid in the scene as catalogued, its quality word has
\* neither the cloud nor the shadow bit, and its thermal count is strictly
\* between 0 and 65535.
Keeps(p) ==
  /\ cruda.QA_PIXEL[p].valid
  /\ cruda.ST_B10[p].valid
  /\ ~BitSet(cruda.QA_PIXEL[p].val, 5)
  /\ ~BitSet(cruda.QA_PIXEL[p].val, 3)
  /\ cruda.ST_B10[p].val > 0
  /\ cruda.ST_B10[p].val < 65535

\* C11: after both masks a pixel is valid iff it was valid before, has
\* neither the cloud bit (5) nor the shadow bit (3) and has a thermal count
\* strictly between 0 and 65535; a valid pixel keeps its values; at every
\* stage the valid pixels are among those valid before; and the two masks
\* applied in the other order give the same scene.
C11_QualityMask ==
  /\ \A b \in DOMAIN escena : ValidPixels(escena[b]) \subseteq ValidPixels(cruda[b])
  /\ pc = "enmascarada" =>
       /\ \A b \in DOMAIN escena : \A p \in DOMAIN escena[b] :
            /\ escena[b][p].valid <=> Keeps(p)
            /\ escena[b][p].valid => escena[b][p] = cruda[b][p]
       /\ escena = cloudMaskFunction(noThermalDataFunction(cruda))

\* C11's case: a scene with the shadow bit alone (and an unrelated bit) over
\* a good thermal count has been masked.
C11_Witness ==
  /\ pc = "enmascarada"
  /\ cruda.QA_PIXEL[<<1, 1>>] = Px(12)
  /\ cruda.ST_B10[<<1, 1>>] = Px(1)
  /\ ~escena.ST_B10[<<1, 1>>].valid

---------------------------------------------------------------------------
\* The call with its exception handler: any statement of the try body may
\* raise (a failed request to Earth Engine, a client-side error).

Etapas == {"paso1", "mosaico", "paso2", "umbral", "mascara", "conectados",
           "limpieza", "paso4", "areas", "devolver"}

\* A handler that reports and raises again.
Propagada == [pc |-> "excepcion", mensaje |-> "error_analisis", resultados |-> None]

\* except Exception as e: st.error(...); return None
Capturada == [pc |-> "fin", mensaje |-> "error_analisis", resultados |-> None]

\* A statement of the current stage raises.
Falla ==
  /\ pc \in Etapas
  /\ pc' = Capturada.pc
  /\ mensaje' = Capturada.mensaje
  /\ resultados' = Capturada.resultados
  /\ UNCHANGED fuera
  /\ UNCHANGED <<aoi_geometry, percentil_uhi, min_pix_parche, coleccion, count,
                 mosaico, lstCelsius, umbral, uhiMask, compCount, uhiClean, stats,
                 areaUHI_ha, sevStats, area_total_ha, porcentaje_uhi>>

NextFallas ==
  \/ Next
  \/ Falla

SpecFallas == Init /\ [][NextFallas]_vars

ClavesResultado ==
  {"lst_tiles", "uhi_tiles", "estadisticas", "area_uhi_ha", "area_total_ha",
   "porcentaje_uhi", "severidad", "umbral_uhi", "n_imagenes"}

Completo(r) ==
  /\ r.ok
  /\ ClavesResultado \subseteq DOMAIN r
  /\ r.n_imagenes >= 1
  /\ r.umbral_uhi.def

\* C13: the call is either still running with nothing returned, or it has
\* ended normally (never with an exception) with None or with a complete
\* record holding every key and n_imagenes >= 1; None is returned exactly
\* when no scene was found or a stage raised.
C13_TwoOutcomes ==
  /\ pc \in Etapas \cup {"fin"}
  /\ pc \in Etapas => resultados = None
  /\ pc = "fin" =>
       /\ resultados = None \/ Completo(resultados)
       /\ resultados = None <=> mensaje \in {"sin_imagenes", "error_analisis"}
       /\ mensaje = "sin_imagenes" => count = 0

\* C13's case: the call had found scenes and built the cleaned mask and the
\* statistics over a defined threshold when a later statement raised.
C13_Witness ==
  /\ pc = "fin"
  /\ count >= 1
  /\ umbral.def
  /\ stats # NullStats
  /\ uhiClean # NoImg
  /\ mensaje = "error_analisis"
  /\ resultados = None

---------------------------------------------------------------------------
\* The dashboard: every event reruns the script from the top against the
\* session state.

\* Bounds: the asset lists 0..MaxLocalidades localities.
MaxLocalidades == 2

Secciones == {"Mapas", "Graficas", "Reportes", "Acerca de"}

\* st.secrets: both keys missing (or unreadable), a key that does not start
\* with the PEM header, or well-formed credentials.
Secretos == {"ausentes", "mal_formato", "correctos"}

\* The second try: ee.Initialize() with the default credentials, after n
\* earlier initialisations.
InicializarPorDefecto(gee, n, ok) ==
  IF ok THEN [gee |-> TRUE, ret |-> TRUE, inicializaciones |-> n + 1]
        ELSE [gee |-> gee, ret |-> FALSE, inicializaciones |-> n + 1]

\* connect_with_gee(): the new gee_available, the value returned and the
\* number of ee.Initialize calls made.
ConnectWithGee(gee, secretos, cuenta_ok, defecto_ok) ==
  IF gee THEN [gee |-> TRUE, ret |-> TRUE, inicializaciones |-> 0]
  ELSE IF secretos = "correctos"
         THEN IF cuenta_ok
                THEN [gee |-> TRUE, ret |-> TRUE, inicializaciones |-> 1]
                ELSE InicializarPorDefecto(gee, 1, defecto_ok)
  ELSE IF secretos = "mal_formato"
         THEN [gee |-> gee, ret |-> FALSE, inicializaciones |-> 0]
  ELSE InicializarPorDefecto(gee, 0, defecto_ok)

\* get_all_localidades(): the number of names, 0 for [] (not connected, an
\* empty asset or a failed request).
GetAllLocalidades(gee, n) == IF ~gee THEN 0 ELSE n

\* get_localidad_geometry(): TRUE for a geometry, FALSE for None.
GetLocalidadGeometry(gee, ok) == IF ~gee THEN FALSE ELSE ok

\* The check of the geometry dropped.
SinGeometriaNunca(g) == FALSE

\* aoi_geometry is None
SinGeometria(g) == ~g

\* A run that ends before the router or in another section.
SinPanel(gee, verificar, n) ==
  [verificar |-> verificar, ejecutar |-> FALSE, antes |-> gee, inicializaciones |-> n,
   localidades |-> 0, visible |-> FALSE, geometria |-> FALSE, analisis |-> FALSE]

\* show_map_panel(): the new gee_available and what the run did.
ShowMapPanel(gee, ejecutar, secretos, cuenta_ok, defecto_ok, n, geom_ok) ==
  LET c == IF ~gee THEN ConnectWithGee(gee, secretos, cuenta_ok, defecto_ok)
                   ELSE [gee |-> gee, ret |-> TRUE, inicializaciones |-> 0]
      localidades == GetAllLocalidades(c.gee, n)
      geometria == GetLocalidadGeometry(c.gee, geom_ok)
      corrida == [SinPanel(gee, FALSE, c.inicializaciones) EXCEPT !.ejecutar = ejecutar]
  IN IF ~gee /\ ~c.ret THEN [gee |-> c.gee, corrida |-> corrida]
     ELSE IF localidades = 0 THEN [gee |-> c.gee, corrida |-> corrida]
     ELSE IF SinGeometria(geometria)
       THEN [gee |-> c.gee,
             corrida |-> [corrida EXCEPT !.localidades = localidades, !.visible = TRUE]]
     ELSE [gee |-> c.gee,
           corrida |-> [corrida EXCEPT !.localidades = localidades, !.visible = TRUE,
                                       !.geometria = geometria,
                                       !.analisis = ejecutar /\ c.gee]]

\* The router after the sidebar, with no verify button pressed.
Router(section, gee, ejecutar, secretos, cuenta_ok, defecto_ok, n, geom_ok) ==
  IF section = "Mapas"
    THEN ShowMapPanel(gee, ejecutar, secretos, cuenta_ok, defecto_ok, n, geom_ok)
    ELSE [gee |-> gee, corrida |-> SinPanel(gee, FALSE, 0)]

\* st.slider("Minimo pixeles por parche", 1, 10, 3): the value a new
\* session starts with.
MinPixDefecto == 3

\* A new session: the initial session state, no run made yet.
InitPanel ==
  /\ pc = "panel"
  /\ gee_available = FALSE
  /\ window = "Mapas"
  /\ rerun_pendiente = FALSE
  /\ ultimo = SinPanel(FALSE, FALSE, 0)
  /\ cruda = NoScene
  /\ escena = NoScene
  /\ aoi_geometry = {}
  /\ percentil_uhi = PercentilUHI
  /\ min_pix_parche = MinPixDefecto
  /\ Unset

\* The script runs with the widgets as they are: the first load, the run
\* st.rerun() asked for, or a change of the selector, the checkbox or the dates.
Recargar ==
  /\ \E secretos \in Secretos, cuenta_ok \in BOOLEAN, defecto_ok \in BOOLEAN,
        n \in 0..MaxLocalidades, geom_ok \in BOOLEAN :
       LET r == Router(window, gee_available, FALSE, secretos, cuenta_ok,
                       defecto_ok, n, geom_ok)
       IN /\ gee_available' = r.gee
          /\ ultimo' = r.corrida
  /\ rerun_pendiente' = FALSE
  /\ UNCHANGED <<pc, window, cruda, escena>>
  /\ UNCHANGED callVars

\* The radio of the sidebar is moved to another section.
CambiarSeccion ==
  /\ ~rerun_pendiente
  /\ \E section \in Secciones \ {window} :
     \E secretos \in Secretos, cuenta_ok \in BOOLEAN, defecto_ok \in BOOLEAN,
        n \in 0..MaxLocalidades, geom_ok \in BOOLEAN :
       LET r == Router(section, gee_available, FALSE, secretos, cuenta_ok,
                       defecto_ok, n, geom_ok)
       IN /\ window' = section
          /\ gee_available' = r.gee
          /\ ultimo' = r.corrida
  /\ UNCHANGED <<pc, rerun_pendiente, cruda, escena>>
  /\ UNCHANGED callVars

\* The verify button: connect_with_gee(); st.rerun() ends the run before
\* the router.
VerificarConexion ==
  /\ ~rerun_pendiente
  /\ \E secretos \in Secretos, cuenta_ok \in BOOLEAN, defecto_ok \in BOOLEAN :
       LET c == ConnectWithGee(gee_available, secretos, cuenta_ok, defecto_ok)
       IN /\ gee_available' = c.gee
          /\ ultimo' = SinPanel(gee_available, TRUE, c.inicializaciones)
  /\ rerun_pendiente' = TRUE
  /\ UNCHANGED <<pc, window, cruda, escena>>
  /\ UNCHANGED callVars

panelVars == <<aoi_geometry, percentil_uhi, coleccion, count, mosaico, lstCelsius,
               umbral, uhiMask, compCount, uhiClean, stats, areaUHI_ha, sevStats,
               area_total_ha, porcentaje_uhi, mensaje, resultados>>

\* The slider of the minimum patch size, which the last run drew, is moved.
MoverMinPix ==
  /\ ~rerun_pendiente
  /\ ultimo.visible
  /\ \E m \in (1..MaxMinPix) \ {min_pix_parche} :
     \E secretos \in Secretos, cuenta_ok \in BOOLEAN, defecto_ok \in BOOLEAN,
        n \in 0..MaxLocalidades, geom_ok \in BOOLEAN :
       LET r == Router(window, gee_available, FALSE, secretos, cuenta_ok,
                       defecto_ok, n, geom_ok)
       IN /\ min_pix_parche' = m
          /\ gee_available' = r.gee
          /\ ultimo' = r.corrida
  /\ UNCHANGED <<pc, window, rerun_pendiente, cruda, escena>>
  /\ UNCHANGED panelVars

\* st.slider("Percentil para UHI", 80, 95, 90)
PercentilMin == 80
PercentilMax == 95

\* The slider of the percentile, which the last run drew, is moved.
MoverPercentil ==
  /\ ~rerun_pendiente
  /\ ultimo.visible
  /\ \E q \in (PercentilMin..PercentilMax) \ {percentil_uhi} :
     \E secretos \in Secretos, cuenta_ok \in BOOLEAN, defecto_ok \in BOOLEAN,
        n \in 0..MaxLocalidades, geom_ok \in BOOLEAN :
       LET r == Router(window, gee_available, FALSE, secretos, cuenta_ok,
                       defecto_ok, n, geom_ok)
       IN /\ percentil_uhi' = q
          /\ gee_available' = r.gee
          /\ ultimo' = r.corrida
  /\ UNCHANGED <<pc, window, rerun_pendiente, cruda, escena, min_pix_parche>>
  /\ UNCHANGED <<aoi_geometry, coleccion, count, mosaico, lstCelsius, umbral,
                 uhiMask, compCount, uhiClean, stats, areaUHI_ha, sevStats,
                 area_total_ha, porcentaje_uhi, mensaje, resultados>>

\* The run button, which the last run drew, is pressed.
EjecutarAnalisis ==
  /\ ~rerun_pendiente
  /\ ultimo.visible
  /\ \E secretos \in Secretos, cuenta_ok \in BOOLEAN, defecto_ok \in BOOLEAN,
        n \in 0..MaxLocalidades, geom_ok \in BOOLEAN :
       LET r == Router(window, gee_available, TRUE, secretos, cuenta_ok,
                       defecto_ok, n, geom_ok)
       IN /\ gee_available' = r.gee
          /\ ultimo' = r.corrida
  /\ UNCHANGED <<pc, window, rerun_pendiente, cruda, escena>>
  /\ UNCHANGED callVars

NextPanel ==
  \/ Recargar
  \/ CambiarSeccion
  \/ VerificarConexion
  \/ MoverMinPix
  \/ MoverPercentil
  \/ EjecutarAnalisis

SpecPanel == InitPanel /\ [][NextPanel]_vars

\* C14: a run starts the analysis only with gee_available true, a non-empty
\* list of localities loaded, a geometry that is not None and the run
\* button pressed in that run; a run that began with gee_available true
\* initialises nothing; and no step takes gee_available from true to false.
C14_AnalysisGuarded ==
  /\ [](/\ ultimo.analisis =>
             /\ gee_available
             /\ ultimo.localidades > 0
             /\ ultimo.geometria
             /\ ultimo.ejecutar
        /\ ultimo.antes => ultimo.inicializaciones = 0)
  /\ [][gee_available => gee_available']_vars

\* C14's case: the analysis was started by a press of the run button in a
\* session that had connected in an earlier run.
C14_Witness ==
  /\ ultimo = CorridaConAnalisis
  /\ min_pix_parche # MinPixDefecto
  /\ gee_available
  /\ window = "Mapas"
  /\ ~rerun_pendiente

====
